---- MODULE Spec2Model ----
(***************************************************************************)
(* ScopeSmith: the session/workflow state machine of the session manager   *)
(* Lambda (src/lambda/session_manager/app.py), the leaf action-group       *)
(* Lambdas that write to the same session record, and the delegated        *)
(* planner (Bedrock agent) as the environment that emits the event stream  *)
(* and invokes the leaf Lambdas.                                           *)
(***************************************************************************)
EXTENDS Integers, Sequences, FiniteSets, TLC

\* ---------------------------------------------------------------- bounds
\* Events the planner emits in one ordinary stream.
MaxEvents == 3
\* Events emitted by the planner and not yet read by the orchestrator.
MaxInFlight == 1
\* Length of the stream of the burst profile (tool calls of one foreign
\* action group and nothing else).
BurstLen == 9
\* Times Lambda delivers the background event again after a timeout.
MaxRedeliveries == 1

\* ----------------------------------------------------- program constants
max_retries == 3
retry_delay == 2
update_interval == 1
throttle_pause == 2

\* ------------------------------------------------------------ vocabulary
\* Keys of the sessions table: the identifier create_session generates,
\* and one that no submit-assessment request created.
SessionIds == {"s1", "s2"}

KnownGroups ==
    {"RequirementsAnalyzer", "CostCalculator", "TemplateRetriever",
     "PowerPointGenerator", "SOWGenerator"}

\* An action group that is not one of this repository's five (the code's
\* default name when the trace carries none is 'Unknown').
ForeignGroup == "Unknown"

ActionGroups == KnownGroups \cup {ForeignGroup}

\* The two action groups that append to document_urls.
Generators == {"PowerPointGenerator", "SOWGenerator"}

\* Shapes of events of the planner's stream that carry no action group.
PlainKinds ==
    {"chunk", "observation", "finalResponse", "rationale",
     "throttlingException", "internalServerException", "validationException",
     "returnControl"}

StreamEvent(kind, name) == [kind |-> kind, name |-> name]

\* Values of the two environment variables of the session manager.
AgentIdValues == {"", "PLACEHOLDER_AGENT_ID", "AGENT1"}
AliasIdValues == {"", "PLACEHOLDER_ALIAS_ID", "ALIAS1"}

\* Results of one call of bedrock_agent_runtime.invoke_agent: a response
\* with or without 'completion', a ClientError with its error code, or an
\* exception that is no ClientError.
InvokeOutcomes ==
    {"ok", "no_completion", "ThrottlingException", "AccessDeniedException",
     "EndpointConnectionError"}

VARIABLES
    agent_id,        \* os.environ BEDROCK_AGENT_ID
    agent_alias_id,  \* os.environ BEDROCK_AGENT_ALIAS_ID
    store,           \* the sessions table: session id -> item
    http,            \* status code of the last submit-assessment response
    scheduled,       \* background invocations handed to Lambda so far
    pc,              \* position of the background workflow execution
    attempt,         \* loop variable of the invoke_agent retry loop
    waits,           \* the time.sleep durations of the retry loop, in order
    invokeLog,       \* the result of every invoke_agent call, in order
    result,          \* statusCode/error returned by the background execution
    plannerPc,       \* the planner: off, thinking, tool, ended
    emitted,         \* events the planner has emitted
    stream,          \* events emitted and not yet read
    leaf,            \* the leaf Lambda the planner is running
    agent_events,    \* in-memory list of classified events
    action_group_invocations,
    chunks_received,
    since,           \* time.time() - last_update_time, saturating
    observed,        \* shapes read from the stream so far, in order
    flushes,         \* agent_events writes issued from inside the loop
    lastPoll,        \* the latest agent-status response
    written,         \* statuses the session manager wrote to its session
    gens,            \* the two generators when run side by side
    deliveries,      \* times Lambda re-delivered the background event
    lastResults,     \* the latest answer of GET /api/results/{session_id}
    chain,           \* the direct chain: its position and the steps it ran
    retrieved,       \* the latest template listing and the selection made
    flushFailures    \* agent_events writes of the loop that raised ClientError

vars ==
    <<agent_id, agent_alias_id, store, http, scheduled, pc, attempt,
      waits, invokeLog, result, plannerPc, emitted, stream, leaf,
      agent_events, action_group_invocations, chunks_received, since,
      observed, flushes, lastPoll, written, gens, deliveries, lastResults,
      chain, retrieved, flushFailures>>

envVars == <<agent_id, agent_alias_id>>
retryVars == <<attempt, waits, invokeLog>>
plannerVars == <<plannerPc, emitted, stream, leaf>>
readerVars ==
    <<agent_events, action_group_invocations, chunks_received, since,
      observed, flushes>>
auxVars ==
    <<gens, deliveries, lastResults, chain, retrieved, flushFailures>>

\* ----------------------------------------------------- the session store
\* An item none of whose attributes is set (exists = FALSE: no item).
NoItem ==
    [exists |-> FALSE, status |-> "", current_stage |-> "", progress |-> <<>>,
     error_message |-> "", document_urls |-> <<>>, cost_data |-> "",
     requirements_data |-> [raw_requirements |-> "", analysis |-> ""],
     template_data |-> "", template_paths |-> <<>>, agent_events |-> <<>>,
     agent_response |-> "", client_name |-> ""]

\* Faulty variant of create_session: the record starts as PROCESSING.
create_session_started(client_name, requirements) ==
    [NoItem EXCEPT
        !.exists = TRUE,
        !.status = "PROCESSING",
        !.client_name = client_name,
        !.requirements_data = [raw_requirements |-> requirements,
                               analysis |-> ""],
        !.current_stage = "Initializing",
        !.progress = <<5>>]

\* put_item of create_session.
create_session(client_name, requirements) ==
    [NoItem EXCEPT
        !.exists = TRUE,
        !.status = "PENDING",
        !.client_name = client_name,
        !.requirements_data = [raw_requirements |-> requirements,
                               analysis |-> ""],
        !.current_stage = "Initializing",
        !.progress = <<0>>]

\* Faulty variant of update_session_status: progress is written on every
\* call, 0 when the caller passed none.
update_session_status_progress(item, status, stage, progress, error_message) ==
    [item EXCEPT
        !.exists = TRUE,
        !.status = status,
        !.current_stage = IF stage # "" THEN stage ELSE @,
        !.progress = IF progress # <<>> THEN progress ELSE <<0>>,
        !.error_message = IF error_message # "" THEN error_message ELSE @]

\* update_session_status: stage "" and error_message "" are the falsy
\* arguments, progress <<>> is None.  update_item creates a missing item.
update_session_status(item, status, stage, progress, error_message) ==
    [item EXCEPT
        !.exists = TRUE,
        !.status = status,
        !.current_stage = IF stage # "" THEN stage ELSE @,
        !.progress = IF progress # <<>> THEN progress ELSE @,
        !.error_message = IF error_message # "" THEN error_message ELSE @]

\* The session view's progress: int(item.get('progress', {}).get('N', '0')).
ProgressOf(item) == IF item.progress = <<>> THEN 0 ELSE item.progress[1]

\* Faulty variant of MarkAsyncFailed: the failure is not recorded.
MarkAsyncFailedSilent(item) == item

\* The update of invoke_agent_async's except branch.
MarkAsyncFailed(item) ==
    [item EXCEPT
        !.exists = TRUE,
        !.status = "ERROR",
        !.error_message = "Failed to start async workflow"]

\* get_session_status: the session view, reduced to the fields the checked
\* properties read; code 404 stands for the None the handler turns into 404.
\* An item without client_name (one create_session did not put) makes
\* item['client_name'] raise KeyError, which handler turns into 500.
get_session_status(sid, item) ==
    IF ~item.exists
    THEN [code |-> 404, session_id |-> sid, status |-> "", progress |-> 0,
          template_paths |-> <<>>]
    ELSE IF item.client_name = ""
    THEN [code |-> 500, session_id |-> sid, status |-> "", progress |-> 0,
          template_paths |-> <<>>]
    ELSE [code |-> 200, session_id |-> sid, status |-> item.status,
          progress |-> ProgressOf(item),
          template_paths |-> item.template_paths]

NoPoll ==
    [code |-> 0, session_id |-> "", status |-> "", progress |-> 0,
     template_paths |-> <<>>]

\* 'pptx' in url.lower() and 'sow' in url.lower(), over the object keys
\* the generators write; a session id is a uuid4 and holds neither word.
MatchesPptx(url) == url \in {sid \o "/presentation.pptx" : sid \in SessionIds}
MatchesSow(url) == url \in {sid \o "/sow.docx" : sid \in SessionIds}

\* next((url for url in document_urls if word in url.lower()), None);
\* "" stands for None.
first_url(urls, word) ==
    LET hits == {i \in DOMAIN urls :
                    IF word = "pptx" THEN MatchesPptx(urls[i])
                                     ELSE MatchesSow(urls[i])}
    IN  IF hits = {} THEN ""
        ELSE urls[CHOOSE i \in hits : \A j \in hits : i <= j]

\* handler, GET /api/results/{session_id}: get_session_status, then 200
\* with the two URLs and cost_data when document_urls is not empty, 404
\* otherwise; the KeyError of get_session_status on an item without
\* client_name reaches handler's except Exception, which answers 500.
get_results(sid, item) ==
    IF ~item.exists
    THEN [code |-> 404, session_id |-> sid, powerpoint_url |-> "",
          sow_url |-> "", cost_data |-> ""]
    ELSE IF item.client_name = ""
    THEN [code |-> 500, session_id |-> sid, powerpoint_url |-> "",
          sow_url |-> "", cost_data |-> ""]
    ELSE IF item.document_urls = <<>>
    THEN [code |-> 404, session_id |-> sid, powerpoint_url |-> "",
          sow_url |-> "", cost_data |-> ""]
    ELSE [code |-> 200, session_id |-> sid,
          powerpoint_url |-> first_url(item.document_urls, "pptx"),
          sow_url |-> first_url(item.document_urls, "sow"),
          cost_data |-> item.cost_data]

\* The steps the direct chain runs one after the other; the two
\* generators follow them.
ChainSteps == <<"RequirementsAnalyzer", "CostCalculator", "TemplateRetriever">>

NoChain ==
    [step |-> 0, pc |-> "idle", invoked |-> {}, succeeded |-> {}, failed |-> {}]

NoRetrieval ==
    [templates |-> [sow |-> <<>>, powerpoint |-> <<>>],
     selected |-> [sow |-> "", powerpoint |-> ""]]

NoResults ==
    [code |-> 0, session_id |-> "", powerpoint_url |-> "", sow_url |-> "",
     cost_data |-> ""]

\* -------------------------------------------------- orchestrator helpers
\* The session the submit-assessment request creates (uuid4 of
\* create_session) and the background invocation's payload carries.
NewSessionId == "s1"

\* An identifier that no submit-assessment request created.
UnknownId == CHOOSE s \in SessionIds : s # NewSessionId

RECURSIVE Pow2(_)
Pow2(n) == IF n = 0 THEN 1 ELSE 2 * Pow2(n - 1)

\* Faulty variant of wait_time: the backoff does not grow.
wait_time_flat(a) == retry_delay

\* wait_time = retry_delay * (2 ** attempt)
wait_time(a) == retry_delay * Pow2(a)

\* Faulty variant of ConfigurationError: no placeholder check.
ConfigurationErrorAbsentOnly ==
    IF agent_id = "" \/ agent_alias_id = ""
    THEN "Bedrock Agent not configured"
    ELSE ""

\* The two ValueError checks at the head of invoke_bedrock_agent: the
\* message of the ValueError raised, "" when none is.
ConfigurationError ==
    IF agent_id = "" \/ agent_alias_id = ""
    THEN "Bedrock Agent not configured"
    ELSE IF agent_id = "PLACEHOLDER_AGENT_ID"
            \/ agent_alias_id = "PLACEHOLDER_ALIAS_ID"
         THEN "Bedrock Agent placeholders detected"
         ELSE ""

\* handler: except ValueError.
HandleValueError(item, message) ==
    update_session_status(item, "ERROR", "Configuration error", <<>>, message)

\* Faulty variant of HandleException: the exception is only printed.
HandleExceptionPrinted(item, message) == item

\* handler: except Exception.
HandleException(item, message) ==
    update_session_status(item, "ERROR", "Agent workflow error", <<>>, message)

\* Faulty variant of ShouldRetry: every error is retried.
ShouldRetryAnyError(error_code, a) == a < max_retries - 1

\* The retry decision of the except ClientError branch.
ShouldRetry(error_code, a) ==
    error_code = "ThrottlingException" /\ a < max_retries - 1

\* Faulty variant of stage_progress: the estimate for an unlisted action
\* group does not count the announcement being read.
stage_progress_before(action_group_name, invocations) ==
    CASE action_group_name = "RequirementsAnalyzer" -> 30
      [] action_group_name = "CostCalculator" -> 50
      [] action_group_name = "TemplateRetriever" -> 60
      [] action_group_name = "PowerPointGenerator" -> 80
      [] action_group_name = "SOWGenerator" -> 95
      [] OTHER -> 15 + (invocations - 1) * 10

\* stage_progress.get(action_group_name, 15 + action_group_invocations * 10)
stage_progress(action_group_name, invocations) ==
    CASE action_group_name = "RequirementsAnalyzer" -> 30
      [] action_group_name = "CostCalculator" -> 50
      [] action_group_name = "TemplateRetriever" -> 60
      [] action_group_name = "PowerPointGenerator" -> 80
      [] action_group_name = "SOWGenerator" -> 95
      [] OTHER -> 15 + invocations * 10

AgentEvent(type, group) == [type |-> type, action_group |-> group]

\* The entry appended to agent_events for an event of the stream, << >>
\* when the event's branch appends none (or no branch matches the event).
Classify(e) ==
    CASE e.kind = "chunk" -> <<AgentEvent("chunk", "")>>
      [] e.kind = "invocationInput" -> <<AgentEvent("tool_call", e.name)>>
      [] e.kind = "observation" -> <<AgentEvent("tool_response", "")>>
      [] e.kind = "finalResponse" -> <<AgentEvent("final_response", "")>>
      [] e.kind = "rationale" -> <<AgentEvent("reasoning", "")>>
      [] e.kind = "throttlingException" -> <<AgentEvent("warning", "")>>
      [] OTHER -> <<>>

\* Faulty variant of StreamErrorOf: a throttling event raises as well.
StreamErrorOfThrottling(e) ==
    CASE e.kind = "internalServerException" -> "Bedrock agent internal error"
      [] e.kind = "validationException" -> "Bedrock agent validation error"
      [] e.kind = "throttlingException" -> "Bedrock agent throttled"
      [] OTHER -> ""

\* The branches that raise out of the for loop.
StreamErrorOf(e) ==
    CASE e.kind = "internalServerException" -> "Bedrock agent internal error"
      [] e.kind = "validationException" -> "Bedrock agent validation error"
      [] OTHER -> ""

\* The branches followed by the rate-limited agent_events write.
FlushAttempted(e) == e.kind \in {"chunk", "invocationInput"}

\* Faulty variant of FlushDue: no rate limit.
FlushDueAlways(elapsed) == TRUE

\* time.time() - last_update_time > update_interval
FlushDue(elapsed) == elapsed > update_interval

SinceCap == update_interval + 1

Elapse(elapsed, seconds) ==
    IF elapsed + seconds > SinceCap THEN SinceCap ELSE elapsed + seconds

\* Faulty variant of DocumentsGenerated: the planner's word is trusted.
DocumentsGeneratedTrusted(document_urls) == TRUE

\* The test of the post-stream reconciliation.
DocumentsGenerated(document_urls) == Len(document_urls) > 0

\* ------------------------------------------------------------------ Init
Init ==
    /\ agent_id \in AgentIdValues
    /\ agent_alias_id \in AliasIdValues
    /\ store = [s \in SessionIds |-> NoItem]
    /\ http = 0
    /\ scheduled = 0
    /\ pc = "idle"
    /\ attempt = 0
    /\ waits = <<>>
    /\ invokeLog = <<>>
    /\ result = ""
    /\ plannerPc = "off"
    /\ emitted = 0
    /\ stream = <<>>
    /\ leaf = [name |-> "", sid |-> "", requirements |-> "", pc |-> "none"]
    /\ agent_events = <<>>
    /\ action_group_invocations = 0
    /\ chunks_received = 0
    /\ since = 0
    /\ observed = <<>>
    /\ flushes = 0
    /\ lastPoll = NoPoll
    /\ written = {}
    /\ gens = [g \in Generators |-> "idle"]
    /\ deliveries = 0
    /\ lastResults = NoResults
    /\ chain = NoChain
    /\ retrieved = NoRetrieval
    /\ flushFailures = 0

\* ------------------------------------------------------- the HTTP handler
\* POST /api/submit-assessment: validation, create_session,
\* invoke_agent_async.
SubmitAssessment(has_client_name, has_requirements, invoke_ok) ==
    /\ pc = "idle"
    /\ http # 200 /\ http # 500
    /\ IF ~(has_client_name /\ has_requirements)
       THEN /\ http' = 400
            /\ UNCHANGED <<store, scheduled, pc, written>>
       ELSE IF invoke_ok
       THEN /\ store' = [store EXCEPT
                           ![NewSessionId] = create_session("Acme", "R0")]
            /\ scheduled' = scheduled + 1
            /\ pc' = "queued"
            /\ http' = 200
            /\ written' = {"PENDING"}
       ELSE /\ store' = [store EXCEPT
                           ![NewSessionId] =
                               MarkAsyncFailed(create_session("Acme", "R0"))]
            /\ http' = 500
            /\ written' = {"PENDING", "ERROR"}
            /\ UNCHANGED <<scheduled, pc>>
    /\ UNCHANGED <<envVars, auxVars, retryVars, result, plannerVars, readerVars, lastPoll>>

\* GET /api/agent-status/{session_id}
PollStatus(sid) ==
    /\ lastPoll' = get_session_status(sid, store[sid])
    /\ UNCHANGED <<envVars, auxVars, written, store, http, scheduled, pc, retryVars, result,
                   plannerVars, readerVars>>

\* handler, GET /api/results/{session_id}.
GetResults(sid) ==
    /\ lastResults' = get_results(sid, store[sid])
    /\ UNCHANGED <<envVars, gens, deliveries, chain, retrieved, flushFailures,
                   lastPoll, written, store,
                   http,
                   scheduled, pc, retryVars, result, plannerVars, readerVars>>

\* --------------------------------------------- the background execution
\* handler, action PROCESS_AGENT_WORKFLOW, up to the first invoke_agent:
\* the configuration checks and the first PROCESSING write.
BeginWorkflow ==
    /\ pc = "queued"
    /\ IF ConfigurationError # ""
       THEN /\ store' = [store EXCEPT
                           ![NewSessionId] =
                               HandleValueError(@, ConfigurationError)]
            /\ pc' = "done"
            /\ result' = "Configuration error"
            /\ written' = written \cup {"ERROR"}
       ELSE /\ store' = [store EXCEPT
                           ![NewSessionId] =
                               update_session_status(@, "PROCESSING",
                                   "Starting agent workflow", <<5>>, "")]
            /\ pc' = "invoke"
            /\ written' = written \cup {"PROCESSING"}
            /\ UNCHANGED result
    /\ UNCHANGED <<envVars, auxVars, http, scheduled, retryVars, plannerVars,
                   readerVars, lastPoll>>

\* One iteration of the retry loop: one invoke_agent call and what follows
\* its failure.
InvokeAgent(outcome) ==
    /\ pc = "invoke"
    /\ invokeLog' = Append(invokeLog, outcome)
    /\ CASE outcome = "ok" ->
              /\ pc' = "invoked"
              /\ plannerPc' = "thinking"
              /\ UNCHANGED <<store, attempt, waits, result, written>>
         [] outcome = "no_completion" ->
              \* the call succeeds, the response has no 'completion'
              /\ store' = [store EXCEPT
                             ![NewSessionId] =
                                 HandleValueError(
                                     update_session_status(@, "PROCESSING",
                                         "Agent workflow started", <<10>>, ""),
                                     "No completion event stream received")]
              /\ pc' = "done"
              /\ result' = "Configuration error"
              /\ written' = written \cup {"PROCESSING", "ERROR"}
              /\ UNCHANGED <<plannerPc, attempt, waits>>
         [] OTHER ->
              IF ShouldRetry(outcome, attempt)
              THEN /\ store' = [store EXCEPT
                                  ![NewSessionId] =
                                      update_session_status(@, "PROCESSING",
                                          "Retrying (throttled, attempt "
                                              \o ToString(attempt + 2) \o ")",
                                          <<>>, "")]
                   /\ waits' = Append(waits, wait_time(attempt))
                   /\ attempt' = attempt + 1
                   /\ written' = written \cup {"PROCESSING"}
                   /\ UNCHANGED <<pc, plannerPc, result>>
              ELSE /\ store' = [store EXCEPT
                                  ![NewSessionId] =
                                      HandleException(@, outcome)]
                   /\ pc' = "done"
                   /\ result' = "Agent workflow failed"
                   /\ written' = written \cup {"ERROR"}
                   /\ UNCHANGED <<plannerPc, attempt, waits>>
    /\ UNCHANGED <<envVars, auxVars, http, scheduled, emitted, stream, leaf,
                   readerVars, lastPoll>>

\* After the successful call: the progress write, break, and the set-up
\* of the reader's locals.
MarkStarted ==
    /\ pc = "invoked"
    /\ store' = [store EXCEPT
                   ![NewSessionId] =
                       update_session_status(@, "PROCESSING",
                           "Agent workflow started", <<10>>, "")]
    /\ since' = 0
    /\ pc' = "stream"
    /\ written' = written \cup {"PROCESSING"}
    /\ UNCHANGED <<envVars, auxVars, http, scheduled, retryVars, result, plannerVars,
                   agent_events, action_group_invocations, chunks_received,
                   observed, flushes, lastPoll>>

\* ------------------------------------------------- the event stream loop
\* What one iteration of `for event in event_stream` does to the session
\* item before any agent_events write: the tool-call progress update.
ProgressUpdate(item, e, invocations) ==
    IF e.kind = "invocationInput"
    THEN update_session_status(item, "PROCESSING", "Running " \o e.name,
             <<stage_progress(e.name, invocations)>>, "")
    ELSE item

\* Faulty variant of FlushEvents: only the newest entry is written.
FlushEventsNewestOnly(item, e, events) ==
    IF e.kind = "invocationInput"
    THEN [item EXCEPT !.exists = TRUE, !.agent_events = Classify(e),
                      !.current_stage = e.name]
    ELSE [item EXCEPT !.exists = TRUE, !.agent_events = Classify(e)]

\* The rate-limited update_item of the chunk and tool-call branches.
FlushEvents(item, e, events) ==
    IF e.kind = "invocationInput"
    THEN [item EXCEPT !.exists = TRUE, !.agent_events = events,
                      !.current_stage = e.name]
    ELSE [item EXCEPT !.exists = TRUE, !.agent_events = events]

\* Faulty variant of StreamFailed: the buffered events are not written.
StreamFailedNoFlush(item, message, events) ==
    HandleException(
        update_session_status(item, "ERROR", "Agent workflow failed", <<>>,
            message),
        message)

\* except Exception as stream_error: the ERROR write, the agent_events
\* write, then the re-raise into handler's except Exception.
StreamFailed(item, message, events) ==
    HandleException(
        [update_session_status(item, "ERROR", "Agent workflow failed", <<>>,
             message) EXCEPT !.agent_events = events],
        message)

\* One iteration of the loop over the event stream.
ReadEvent ==
    /\ pc = "stream"
    /\ stream # <<>>
    /\ LET e == Head(stream)
           events == agent_events \o Classify(e)
           invocations == IF e.kind = "invocationInput"
                          THEN action_group_invocations + 1
                          ELSE action_group_invocations
           flush == FlushAttempted(e) /\ FlushDue(since)
           item == ProgressUpdate(store[NewSessionId], e, invocations)
       IN  /\ stream' = Tail(stream)
           /\ observed' = Append(observed, e)
           /\ action_group_invocations' = invocations
           /\ chunks_received' =
                  IF e.kind = "chunk" THEN chunks_received + 1
                  ELSE chunks_received
           /\ IF StreamErrorOf(e) # ""
              THEN /\ store' = [store EXCEPT
                                  ![NewSessionId] =
                                      StreamFailed(item, StreamErrorOf(e),
                                                   agent_events)]
                   /\ pc' = "done"
                   /\ result' = "Agent workflow failed"
                   /\ written' =
                          written \cup {"ERROR"}
                              \cup (IF e.kind = "invocationInput"
                                    THEN {"PROCESSING"} ELSE {})
                   /\ UNCHANGED <<agent_events, since, flushes>>
              ELSE /\ agent_events' = events
                   /\ store' = [store EXCEPT
                                  ![NewSessionId] =
                                      IF flush
                                      THEN FlushEvents(item, e, events)
                                      ELSE item]
                   /\ flushes' = IF flush THEN flushes + 1 ELSE flushes
                   /\ since' =
                          IF flush THEN 0
                          ELSE IF e.kind = "throttlingException"
                               THEN Elapse(since, throttle_pause)
                               ELSE since
                   /\ written' =
                          IF e.kind = "invocationInput"
                          THEN written \cup {"PROCESSING"}
                          ELSE written
                   /\ UNCHANGED <<pc, result>>
    /\ UNCHANGED <<envVars, auxVars, http, scheduled, retryVars, plannerPc, emitted,
                   leaf, lastPoll>>

\* Faulty variant of ReadEventFlushFails: the ClientError of the write is
\* not caught inside the loop and ends the execution as a stream error.
ReadEventFlushFailsFatal ==
    /\ pc = "stream"
    /\ stream # <<>>
    /\ FlushAttempted(Head(stream))
    /\ FlushDue(since)
    /\ LET e == Head(stream)
           invocations == IF e.kind = "invocationInput"
                          THEN action_group_invocations + 1
                          ELSE action_group_invocations
           item == ProgressUpdate(store[NewSessionId], e, invocations)
       IN  /\ stream' = Tail(stream)
           /\ observed' = Append(observed, e)
           /\ action_group_invocations' = invocations
           /\ chunks_received' =
                  IF e.kind = "chunk" THEN chunks_received + 1
                  ELSE chunks_received
           /\ agent_events' = agent_events \o Classify(e)
           /\ store' = [store EXCEPT
                          ![NewSessionId] =
                              StreamFailed(item, "ClientError", agent_events')]
           /\ written' = written \cup {"PROCESSING", "ERROR"}
    /\ flushFailures' = flushFailures + 1
    /\ pc' = "done"
    /\ result' = "Agent workflow failed"
    /\ UNCHANGED <<envVars, gens, deliveries, lastResults, chain, retrieved,
                   http, scheduled, retryVars, plannerPc, emitted, leaf,
                   lastPoll, since, flushes>>

\* One iteration of the loop in which the rate-limited agent_events write
\* is due and update_item raises ClientError: the except branch prints,
\* last_update_time keeps its value, and the loop goes on.
ReadEventFlushFails ==
    /\ pc = "stream"
    /\ stream # <<>>
    /\ FlushAttempted(Head(stream))
    /\ FlushDue(since)
    /\ LET e == Head(stream)
           invocations == IF e.kind = "invocationInput"
                          THEN action_group_invocations + 1
                          ELSE action_group_invocations
       IN  /\ stream' = Tail(stream)
           /\ observed' = Append(observed, e)
           /\ action_group_invocations' = invocations
           /\ chunks_received' =
                  IF e.kind = "chunk" THEN chunks_received + 1
                  ELSE chunks_received
           /\ agent_events' = agent_events \o Classify(e)
           /\ store' = [store EXCEPT
                          ![NewSessionId] = ProgressUpdate(@, e, invocations)]
           /\ written' = IF e.kind = "invocationInput"
                         THEN written \cup {"PROCESSING"}
                         ELSE written
    /\ flushFailures' = flushFailures + 1
    /\ UNCHANGED <<envVars, gens, deliveries, lastResults, chain, retrieved,
                   http, scheduled, pc, result, retryVars, plannerPc, emitted,
                   leaf, lastPoll, since, flushes>>

\* Wall-clock time passing while the loop waits for the next event.
Tick ==
    /\ pc = "stream"
    /\ since < SinceCap
    /\ since' = Elapse(since, 1)
    /\ UNCHANGED <<envVars, auxVars, written, store, http, scheduled, pc, retryVars, result,
                   plannerVars, agent_events, action_group_invocations,
                   chunks_received, observed, flushes, lastPoll>>

\* Faulty variant of FinalUpdate: the failure is reported as finished work.
FinalUpdateFinished(item, events) ==
    IF DocumentsGenerated(item.document_urls)
    THEN [update_session_status(item, "COMPLETED", "Workflow completed",
              <<100>>, "")
          EXCEPT !.agent_events = events, !.agent_response = "response"]
    ELSE [update_session_status(item, "ERROR", "Document generation failed",
              <<100>>, "")
          EXCEPT !.agent_events = events,
                 !.agent_response = "response, error: No documents generated"]

\* Faulty variant of FinalUpdate: COMPLETED is written without progress.
FinalUpdateNoProgress(item, events) ==
    IF DocumentsGenerated(item.document_urls)
    THEN [update_session_status(item, "COMPLETED", "Workflow completed",
              <<>>, "")
          EXCEPT !.agent_events = events, !.agent_response = "response"]
    ELSE [update_session_status(item, "ERROR", "Document generation failed",
              <<>>, "Agent workflow completed but no documents were generated")
          EXCEPT !.agent_events = events,
                 !.agent_response = "response, error: No documents generated"]

\* The final update: the re-read of document_urls and the terminal write.
FinalUpdate(item, events) ==
    IF DocumentsGenerated(item.document_urls)
    THEN [update_session_status(item, "COMPLETED", "Workflow completed",
              <<100>>, "")
          EXCEPT !.agent_events = events, !.agent_response = "response"]
    ELSE [update_session_status(item, "ERROR", "Document generation failed",
              <<>>, "Agent workflow completed but no documents were generated")
          EXCEPT !.agent_events = events,
                 !.agent_response = "response, error: No documents generated"]

\* The stream is exhausted: the loop ends and the reconciliation runs.
Reconcile ==
    /\ pc = "stream"
    /\ stream = <<>>
    /\ plannerPc = "ended"
    /\ store' = [store EXCEPT
                   ![NewSessionId] = FinalUpdate(@, agent_events)]
    /\ pc' = "done"
    /\ result' = "Agent workflow completed"
    /\ written' = written \cup {store'[NewSessionId].status}
    /\ UNCHANGED <<envVars, auxVars, http, scheduled, retryVars, plannerVars,
                   readerVars, lastPoll>>

\* The reconciliation with a store call that raises ClientError: the
\* except ClientError around the final update prints and the function
\* returns its result as after a completed workflow.  When get_item or
\* update_session_status raises, nothing is written; when the update_item
\* after it raises, the status write has been made.
ReconcileStoreFails(failed_call) ==
    /\ pc = "stream"
    /\ stream = <<>>
    /\ plannerPc = "ended"
    /\ store' = [store EXCEPT
                   ![NewSessionId] =
                       IF failed_call = "update_item"
                       THEN [FinalUpdate(@, agent_events) EXCEPT
                                !.agent_events = store[NewSessionId].agent_events,
                                !.agent_response = store[NewSessionId].agent_response]
                       ELSE @]
    /\ written' = IF failed_call = "update_item"
                  THEN written \cup {store'[NewSessionId].status}
                  ELSE written
    /\ pc' = "done"
    /\ result' = "Agent workflow completed"
    /\ UNCHANGED <<envVars, auxVars, http, scheduled, retryVars, plannerVars,
                   readerVars, lastPoll>>

\* The session manager function runs with a timeout of 30 seconds and the
\* default retry setting of asynchronous invocations: an execution that is
\* still running at the timeout is ended where it stands, and Lambda
\* delivers the same event to handler again.  The execution's locals and
\* its connection to the planner's stream are lost.  (emitted goes on
\* counting: MaxEvents bounds the events of all the planner's runs.)
Redeliver ==
    /\ pc = "stream"
    /\ stream = <<>>
    /\ deliveries < MaxRedeliveries
    /\ leaf.pc = "none"
    /\ deliveries' = deliveries + 1
    /\ pc' = "queued"
    /\ attempt' = 0
    /\ plannerPc' = "off"
    /\ stream' = <<>>
    /\ agent_events' = <<>>
    /\ action_group_invocations' = 0
    /\ chunks_received' = 0
    /\ since' = 0
    /\ observed' = <<>>
    /\ flushes' = 0
    /\ UNCHANGED <<envVars, gens, lastResults, retrieved, flushFailures, chain, written, store, http, scheduled, waits,
                   invokeLog, result, emitted, leaf, lastPoll>>

\* ------------------------------------------------------ the leaf Lambdas
\* The status each leaf handler writes first.
InProgressStatus(group) ==
    CASE group = "RequirementsAnalyzer" -> "ANALYZING_REQUIREMENTS"
      [] group = "CostCalculator" -> "CALCULATING_COSTS"
      [] group = "TemplateRetriever" -> "RETRIEVING_TEMPLATES"
      [] group = "PowerPointGenerator" -> "GENERATING_POWERPOINT"
      [] group = "SOWGenerator" -> "GENERATING_SOW"

\* The first update_item of a leaf handler (it creates a missing item).
LeafStatusWrite(item, group) ==
    [item EXCEPT !.exists = TRUE, !.status = InProgressStatus(group)]

\* requirements_analyzer: the final update_item; nothing is written when
\* the model call raises.
AnalyzerResult(item, requirements, ok, complexity) ==
    IF ok
    THEN [item EXCEPT
             !.exists = TRUE,
             !.requirements_data = [raw_requirements |-> requirements,
                                    analysis |-> complexity],
             !.status = "REQUIREMENTS_ANALYZED"]
    ELSE item

\* cost_calculator: the final update_item, or the one of its except branch.
CostResult(item, ok) ==
    IF ok
    THEN [item EXCEPT
             !.exists = TRUE,
             !.cost_data = "cost:" \o item.requirements_data.analysis,
             !.status = "COSTS_CALCULATED"]
    ELSE [item EXCEPT
             !.exists = TRUE,
             !.status = "ERROR",
             !.error_message = "Cost calculation failed"]

\* template_retriever: the final update_item.
TemplateResult(item, ok) ==
    IF ok
    THEN [item EXCEPT
             !.exists = TRUE,
             !.template_data = "templates",
             !.status = "TEMPLATES_RETRIEVED"]
    ELSE item

\* Faulty variant of PowerPointResult: the list is replaced.
PowerPointResultReplace(item, sid, ok) ==
    IF ok
    THEN [item EXCEPT
             !.exists = TRUE,
             !.document_urls = <<sid \o "/presentation.pptx">>,
             !.status = "POWERPOINT_GENERATED"]
    ELSE item

\* powerpoint_generator: the list_append update_item; nothing is written
\* when generation raises.
PowerPointResult(item, sid, ok) ==
    IF ok
    THEN [item EXCEPT
             !.exists = TRUE,
             !.document_urls = Append(@, sid \o "/presentation.pptx"),
             !.status = "POWERPOINT_GENERATED"]
    ELSE item

\* Faulty variant of SowResult: the list is overwritten, not appended to.
SowResultOverwrite(item, sid, ok) ==
    IF ok
    THEN [item EXCEPT
             !.exists = TRUE,
             !.document_urls = <<sid \o "/sow.docx">>,
             !.status = "SOW_GENERATED"]
    ELSE item

\* sow_generator: the list_append update_item.  An absent document_urls
\* is << >>, which is also what if_not_exists(document_urls, :empty) gives.
SowResult(item, sid, ok) ==
    IF ok
    THEN [item EXCEPT
             !.exists = TRUE,
             !.document_urls = Append(@, sid \o "/sow.docx"),
             !.status = "SOW_GENERATED"]
    ELSE item

LeafResult(item, l, ok, complexity) ==
    CASE l.name = "RequirementsAnalyzer" ->
             AnalyzerResult(item, l.requirements, ok, complexity)
      [] l.name = "CostCalculator" -> CostResult(item, ok)
      [] l.name = "TemplateRetriever" -> TemplateResult(item, ok)
      [] l.name = "PowerPointGenerator" -> PowerPointResult(item, l.sid, ok)
      [] l.name = "SOWGenerator" -> SowResult(item, l.sid, ok)

\* With the store answering, nothing in template_retriever raises (the
\* S3 and JSON errors are caught inside); the other four call Bedrock.
LeafOutcomes(group) ==
    IF group = "TemplateRetriever" THEN {TRUE} ELSE BOOLEAN

\* Values of complexity_level in the model's analysis.
ComplexityLevels == {"Medium", "High"}

IdleLeaf == [name |-> "", sid |-> "", requirements |-> "", pc |-> "none"]

Observation == StreamEvent("observation", "")

\* requirements_analyzer without a requirements parameter reads the raw
\* requirements of the session; it returns 404/400 before any write when
\* there is no item or no raw text.
AnalyzerReturnsEarly(item, l) ==
    /\ l.name = "RequirementsAnalyzer"
    /\ l.requirements = ""
    /\ (~item.exists \/ item.requirements_data.raw_requirements = "")

\* A leaf handler from its entry to its first write.
LeafBegin ==
    /\ plannerPc = "tool"
    /\ leaf.pc = "called"
    /\ leaf.name \in KnownGroups
    /\ IF AnalyzerReturnsEarly(store[leaf.sid], leaf)
       THEN /\ Len(stream) < MaxInFlight
            /\ stream' = Append(stream, Observation)
            /\ emitted' = emitted + 1
            /\ plannerPc' = "thinking"
            /\ leaf' = IdleLeaf
            /\ UNCHANGED store
       ELSE /\ store' = [store EXCEPT
                           ![leaf.sid] = LeafStatusWrite(@, leaf.name)]
            /\ leaf' = [leaf EXCEPT
                           !.pc = "started",
                           !.requirements =
                               IF leaf.name = "RequirementsAnalyzer"
                                  /\ leaf.requirements = ""
                               THEN store[leaf.sid].requirements_data
                                        .raw_requirements
                               ELSE @]
            /\ UNCHANGED <<plannerPc, emitted, stream>>
    /\ UNCHANGED <<envVars, auxVars, written, http, scheduled, pc, retryVars, result,
                   readerVars, lastPoll>>

\* The rest of the leaf handler; the planner then reports the tool's result.
LeafFinish(ok, complexity) ==
    /\ plannerPc = "tool"
    /\ leaf.pc = "started"
    /\ ok \in LeafOutcomes(leaf.name)
    /\ Len(stream) < MaxInFlight
    /\ store' = [store EXCEPT
                   ![leaf.sid] = LeafResult(@, leaf, ok, complexity)]
    /\ stream' = Append(stream, Observation)
    /\ emitted' = emitted + 1
    /\ plannerPc' = "thinking"
    /\ leaf' = IdleLeaf
    /\ UNCHANGED <<envVars, auxVars, written, http, scheduled, pc, retryVars, result,
                   readerVars, lastPoll>>

\* ---------------------------------------------- the template selection
\* `word in name.lower()` for the names of the objects under
\* sow-templates/ and powerpoint-templates/, extension removed.
Has(word, name) ==
    CASE word = "standard" -> name \in {"standard_sow", "standard_deck"}
      [] word = "enterprise" -> name = "Enterprise_SOW"
      [] word = "detailed" -> name = "Detailed_Deck"

\* next((t for t in listing if word in t['name'].lower()), None) or
\* listing[0], for a listing that is not empty.
PreferredTemplate(listing, word) ==
    LET hits == {i \in DOMAIN listing : Has(word, listing[i])}
    IN  IF hits = {} THEN listing[1]
        ELSE listing[CHOOSE i \in hits : \A j \in hits : i <= j]

\* requirements_data.get('complexity_level', 'Medium') on the stored
\* requirements_data, whose keys are raw_requirements and analysis.
complexity_of(requirements_data) ==
    IF "complexity_level" \in DOMAIN requirements_data
    THEN requirements_data.complexity_level
    ELSE "Medium"

\* cost_data.get('total_cost', 50000): calculate_project_cost for an
\* analysis that lists no deliverables gives 80 base hours, 120 hours
\* (14820) at Medium and 160 hours (19760) at High.
total_cost_of(cost_data) ==
    CASE cost_data = "" -> 50000
      [] cost_data = "cost:High" -> 19760
      [] OTHER -> 14820

\* select_best_templates; "" stands for a type without an entry.
select_best_templates(templates, requirements_data, cost_data) ==
    LET complexity == complexity_of(requirements_data)
        total_cost == total_cost_of(cost_data)
        large == complexity = "High" \/ total_cost > 100000
    IN  [sow |->
             IF templates.sow = <<>> THEN ""
             ELSE PreferredTemplate(templates.sow,
                      IF large THEN "enterprise" ELSE "standard"),
         powerpoint |->
             IF templates.powerpoint = <<>> THEN ""
             ELSE PreferredTemplate(templates.powerpoint,
                      IF large THEN "detailed" ELSE "standard")]

\* json.dumps(selected_templates)
TemplateJson(selected) ==
    "{sow:" \o selected.sow \o ",powerpoint:" \o selected.powerpoint \o "}"

\* Listings of the template bucket, in the order list_objects_v2 gives.
SowListings ==
    {<<>>, <<"standard_sow">>, <<"fixed_price_sow", "Enterprise_SOW">>,
     <<"Enterprise_SOW", "standard_sow">>}
PowerPointListings ==
    {<<>>, <<"pitch_deck">>, <<"standard_deck", "Detailed_Deck">>}

\* The rest of the template_retriever handler with the bucket's listing:
\* get_item, the two list_objects_v2 calls for the requested type (a type
\* not requested, or whose listing raised, has no templates),
\* select_best_templates and the final update_item.
TemplateFinish(template_type, sow_listing, powerpoint_listing) ==
    LET templates ==
            [sow |-> IF template_type \in {"sow", "both"}
                     THEN sow_listing ELSE <<>>,
             powerpoint |-> IF template_type \in {"powerpoint", "both"}
                            THEN powerpoint_listing ELSE <<>>]
        selected == select_best_templates(templates,
                        store[leaf.sid].requirements_data,
                        store[leaf.sid].cost_data)
    IN  /\ plannerPc = "tool"
        /\ leaf.pc = "started"
        /\ leaf.name = "TemplateRetriever"
        /\ Len(stream) < MaxInFlight
        /\ store' = [store EXCEPT
                       ![leaf.sid] =
                           [@ EXCEPT !.exists = TRUE,
                                     !.template_data = TemplateJson(selected),
                                     !.status = "TEMPLATES_RETRIEVED"]]
        /\ retrieved' = [templates |-> templates, selected |-> selected]
        /\ stream' = Append(stream, Observation)
        /\ emitted' = emitted + 1
        /\ plannerPc' = "thinking"
        /\ leaf' = IdleLeaf
        /\ UNCHANGED <<envVars, gens, deliveries, lastResults, chain,
                       flushFailures, written, http, scheduled, pc, retryVars,
                       result, readerVars, lastPoll>>

\* ------------------------------------- the two generators side by side
\* Each update_item is atomic; the handlers of two invocations interleave
\* between their writes.
GeneratorResult(item, g, sid, ok) ==
    IF g = "PowerPointGenerator"
    THEN PowerPointResult(item, sid, ok)
    ELSE SowResult(item, sid, ok)

\* A generator's handler from its entry to its first write, for the
\* session a submit-assessment request created.
GeneratorBegin(g) ==
    /\ gens[g] = "idle"
    /\ store[NewSessionId].exists
    /\ store' = [store EXCEPT ![NewSessionId] = LeafStatusWrite(@, g)]
    /\ gens' = [gens EXCEPT ![g] = "started"]
    /\ UNCHANGED <<envVars, deliveries, lastResults, retrieved, flushFailures, chain, written, http, scheduled,
                   pc,
                   retryVars, result, plannerVars, readerVars, lastPoll>>

\* The rest of the generator's handler: the append, or the except branch.
GeneratorFinish(g, ok) ==
    /\ gens[g] = "started"
    /\ store' = [store EXCEPT
                   ![NewSessionId] = GeneratorResult(@, g, NewSessionId, ok)]
    /\ gens' = [gens EXCEPT ![g] = IF ok THEN "done" ELSE "failed"]
    /\ UNCHANGED <<envVars, deliveries, lastResults, retrieved, flushFailures, chain, written, http, scheduled,
                   pc,
                   retryVars, result, plannerVars, readerVars, lastPoll>>

\* ------------------------------------------------------ direct chaining
\* The text a leaf handler's except branch returns.
FailureText(group) ==
    CASE group = "RequirementsAnalyzer" -> "Analysis failed"
      [] group = "CostCalculator" -> "Cost calculation failed"
      [] group = "TemplateRetriever" -> "Template retrieval failed"
      [] group = "PowerPointGenerator" -> "PowerPoint generation failed"
      [] group = "SOWGenerator" -> "SOW generation failed"

\* Faulty variant of step_response: a failed step answers as a
\* successful one.
step_response_completed(group, ok) == "completed successfully"

\* The body of a leaf handler's answer: format_agent_response keeps the
\* body text and drops the status code.
step_response(group, ok) ==
    IF ok THEN "completed successfully" ELSE FailureText(group)

\* The chain's reading of an answer as a fatal or step-internal error.
IsStepError(body) == body \in {FailureText(g) : g \in KnownGroups}

\* The chain's transition to ERROR with the underlying message.
ChainAbort(item, message) ==
    [item EXCEPT !.exists = TRUE, !.status = "ERROR", !.error_message = message]

\* The chain invokes its next step, whose handler makes its first write.
ChainInvoke ==
    /\ pc \in {"queued", "chain"}
    /\ chain.pc \in {"idle", "ready"}
    /\ chain.step < Len(ChainSteps)
    /\ store' = [store EXCEPT
                   ![NewSessionId] =
                       LeafStatusWrite(@, ChainSteps[chain.step + 1])]
    /\ chain' = [chain EXCEPT
                    !.pc = "called",
                    !.invoked = @ \cup {ChainSteps[chain.step + 1]}]
    /\ pc' = "chain"
    /\ UNCHANGED <<envVars, gens, deliveries, lastResults, retrieved, flushFailures, written, http,
                   scheduled, retryVars, result, plannerVars, readerVars,
                   lastPoll>>

\* The step's handler finishes and the chain reads its answer: the next
\* step after a success, ERROR and no further step after an error.
\* succeeded and failed record what the handler did.
ChainReturn(ok, complexity) ==
    LET name == ChainSteps[chain.step + 1]
        item == store[NewSessionId]
        l == [name |-> name, sid |-> NewSessionId,
              requirements |-> item.requirements_data.raw_requirements,
              pc |-> "started"]
        after == LeafResult(item, l, ok, complexity)
        body == step_response(name, ok)
    IN  /\ pc = "chain"
        /\ chain.pc = "called"
        /\ ok \in LeafOutcomes(name)
        /\ IF IsStepError(body)
           THEN /\ store' = [store EXCEPT
                               ![NewSessionId] = ChainAbort(after, body)]
                /\ chain' = [chain EXCEPT
                                !.pc = "stopped",
                                !.succeeded = IF ok THEN @ \cup {name} ELSE @,
                                !.failed = IF ok THEN @ ELSE @ \cup {name}]
                /\ pc' = "done"
           ELSE /\ store' = [store EXCEPT ![NewSessionId] = after]
                /\ chain' = [chain EXCEPT
                                !.pc = IF chain.step + 1 = Len(ChainSteps)
                                       THEN "generating" ELSE "ready",
                                !.step = @ + 1,
                                !.succeeded = IF ok THEN @ \cup {name} ELSE @,
                                !.failed = IF ok THEN @ ELSE @ \cup {name}]
                /\ pc' = pc
        /\ UNCHANGED <<envVars, gens, deliveries, lastResults, retrieved, flushFailures, written, http,
                       scheduled, retryVars, result, plannerVars, readerVars,
                       lastPoll>>

\* After the three steps the chain invokes both generators, in any order.
ChainGenerate(g) ==
    /\ chain.pc = "generating"
    /\ GeneratorBegin(g)

\* Both generators have answered: COMPLETED, or ERROR with a failure.
ChainFinish ==
    /\ chain.pc = "generating"
    /\ \A g \in Generators : gens[g] \in {"done", "failed"}
    /\ store' = [store EXCEPT
                   ![NewSessionId] =
                       IF \A g \in Generators : gens[g] = "done"
                       THEN [@ EXCEPT !.status = "COMPLETED"]
                       ELSE ChainAbort(@, FailureText(
                                CHOOSE g \in Generators : gens[g] = "failed"))]
    /\ chain' = [chain EXCEPT !.pc = "finished"]
    /\ pc' = "done"
    /\ UNCHANGED <<envVars, gens, deliveries, lastResults, retrieved, flushFailures, written, http,
                   scheduled, retryVars, result, plannerVars, readerVars,
                   lastPoll>>

\* ------------------------------------------------- the delegated planner
\* What the planner emits on its own while it is not running a tool.
SpontaneousKinds == PlainKinds \ {"observation"}

\* Events after which the planner's stream is over.
ClosingKinds ==
    {"internalServerException", "validationException", "returnControl"}

PlannerEmit(kind) ==
    /\ plannerPc = "thinking"
    /\ emitted < MaxEvents
    /\ Len(stream) < MaxInFlight
    /\ stream' = Append(stream, StreamEvent(kind, ""))
    /\ emitted' = emitted + 1
    /\ plannerPc' = IF kind \in ClosingKinds THEN "ended" ELSE "thinking"
    /\ UNCHANGED <<envVars, auxVars, written, store, http, scheduled, pc, retryVars, result,
                   leaf, readerVars, lastPoll>>

\* The requirements parameter the planner passes to analyze_requirements.
RequirementsArgs(group) ==
    IF group = "RequirementsAnalyzer" THEN {"", "R1"} ELSE {""}

\* The planner announces a tool call and invokes the tool.
PlannerAnnounce(group, sid, requirements) ==
    /\ plannerPc = "thinking"
    /\ emitted < MaxEvents
    /\ Len(stream) < MaxInFlight
    /\ requirements \in RequirementsArgs(group)
    /\ stream' = Append(stream, StreamEvent("invocationInput", group))
    /\ emitted' = emitted + 1
    /\ plannerPc' = "tool"
    /\ leaf' = [name |-> group, sid |-> sid, requirements |-> requirements,
                pc |-> "called"]
    /\ UNCHANGED <<envVars, auxVars, written, store, http, scheduled, pc, retryVars, result,
                   readerVars, lastPoll>>

\* A tool of another action group returns.
ForeignReturn ==
    /\ plannerPc = "tool"
    /\ leaf.name = ForeignGroup
    /\ Len(stream) < MaxInFlight
    /\ stream' = Append(stream, Observation)
    /\ emitted' = emitted + 1
    /\ plannerPc' = "thinking"
    /\ leaf' = IdleLeaf
    /\ UNCHANGED <<envVars, auxVars, written, store, http, scheduled, pc, retryVars, result,
                   readerVars, lastPoll>>

\* The planner ends its turn: the stream closes.
PlannerEnd ==
    /\ plannerPc = "thinking"
    /\ plannerPc' = "ended"
    /\ UNCHANGED <<envVars, auxVars, written, store, http, scheduled, pc, retryVars, result,
                   emitted, stream, leaf, readerVars, lastPoll>>

\* A planner that only calls tools of a foreign action group.
BurstAnnounce ==
    /\ plannerPc = "thinking"
    /\ emitted < 2 * BurstLen
    /\ Len(stream) < MaxInFlight
    /\ stream' = Append(stream, StreamEvent("invocationInput", ForeignGroup))
    /\ emitted' = emitted + 1
    /\ plannerPc' = "tool"
    /\ leaf' = [name |-> ForeignGroup, sid |-> NewSessionId,
                requirements |-> "", pc |-> "called"]
    /\ UNCHANGED <<envVars, auxVars, written, store, http, scheduled, pc, retryVars, result,
                   readerVars, lastPoll>>

\* ------------------------------------------------------- specifications
Orchestrator ==
    \/ \E c, r, ok \in BOOLEAN : SubmitAssessment(c, r, ok)
    \/ BeginWorkflow
    \/ \E outcome \in InvokeOutcomes : InvokeAgent(outcome)
    \/ MarkStarted
    \/ ReadEvent
    \/ Tick
    \/ Reconcile

Next ==
    \/ Orchestrator
    \/ \E kind \in SpontaneousKinds : PlannerEmit(kind)
    \/ \E group \in ActionGroups, req \in {"", "R1"} :
           PlannerAnnounce(group, NewSessionId, req)
    \/ LeafBegin
    \/ \E ok \in BOOLEAN, complexity \in ComplexityLevels :
           LeafFinish(ok, complexity)
    \/ ForeignReturn
    \/ PlannerEnd

Spec == Init /\ [][Next]_vars

\* The same program with a client polling agent-status.
NextPoll ==
    \/ Next
    \/ \E sid \in SessionIds : PollStatus(sid)

SpecPoll == Init /\ [][NextPoll]_vars

\* The same program under a planner that announces BurstLen tool calls of
\* a foreign action group.
NextBurst ==
    \/ Orchestrator
    \/ BurstAnnounce
    \/ ForeignReturn
    \/ PlannerEnd

SpecBurst == Init /\ [][NextBurst]_vars

\* The same program under a planner that may pass to a tool a session id
\* other than the one of its prompt, with a client polling that id.
NextGhost ==
    \/ Next
    \/ \E group \in KnownGroups, req \in {"", "R1"} :
           PlannerAnnounce(group, UnknownId, req)
    \/ PollStatus(UnknownId)

SpecGhost == Init /\ [][NextGhost]_vars

\* The program under fair scheduling: the background execution, once
\* delivered, runs each of its steps, and the planner and the leaf it
\* calls go on until the planner's stream ends.
ExecutionStep ==
    \/ BeginWorkflow
    \/ \E outcome \in InvokeOutcomes : InvokeAgent(outcome)
    \/ MarkStarted
    \/ ReadEvent
    \/ Reconcile

PlannerStep ==
    \/ \E kind \in SpontaneousKinds : PlannerEmit(kind)
    \/ \E group \in ActionGroups, req \in {"", "R1"} :
           PlannerAnnounce(group, NewSessionId, req)
    \/ LeafBegin
    \/ \E ok \in BOOLEAN, complexity \in ComplexityLevels :
           LeafFinish(ok, complexity)
    \/ ForeignReturn
    \/ PlannerEnd

SpecFair ==
    Init /\ [][Next]_vars /\ WF_vars(ExecutionStep) /\ WF_vars(PlannerStep)

\* The same program with the template bucket's listing drawn from
\* SowListings and PowerPointListings when retrieve_templates runs.
NextTemplates ==
    \/ Next
    \/ \E template_type \in {"sow", "powerpoint", "both"},
          sow_listing \in SowListings,
          powerpoint_listing \in PowerPointListings :
           TemplateFinish(template_type, sow_listing, powerpoint_listing)

SpecTemplates == Init /\ [][NextTemplates]_vars

\* The program with the direct chain as the background execution.
NextChain ==
    \/ \E c, r, ok \in BOOLEAN : SubmitAssessment(c, r, ok)
    \/ PollStatus(NewSessionId)
    \/ ChainInvoke
    \/ \E ok \in BOOLEAN, complexity \in ComplexityLevels :
           ChainReturn(ok, complexity)
    \/ \E g \in Generators : ChainGenerate(g)
    \/ \E g \in Generators, ok \in BOOLEAN : GeneratorFinish(g, ok)
    \/ ChainFinish

SpecChain == Init /\ [][NextChain]_vars

\* The same program with a client that asks for the results of either
\* session id, under a planner that may pass the other id to a generator.
NextResults ==
    \/ Next
    \/ \E group \in Generators, req \in {"", "R1"} :
           PlannerAnnounce(group, UnknownId, req)
    \/ \E sid \in SessionIds : GetResults(sid)

SpecResults == Init /\ [][NextResults]_vars

\* The same program with a session store whose calls can fail during the
\* reconciliation.
StoreCalls == {"get_item", "update_session_status", "update_item"}

NextFault ==
    \/ Next
    \/ \E failed_call \in StoreCalls : ReconcileStoreFails(failed_call)

SpecFault == Init /\ [][NextFault]_vars

\* The same program with a session store whose agent_events writes inside
\* the stream loop can fail.
NextFlushFault ==
    \/ Next
    \/ ReadEventFlushFails

SpecFlushFault == Init /\ [][NextFlushFault]_vars

\* The same program with executions that outlast the function timeout.
NextRedelivery ==
    \/ Next
    \/ Redeliver

SpecRedelivery == Init /\ [][NextRedelivery]_vars

\* The two generators invoked at the same time for one session.
NextPair ==
    \/ \E c, r, ok \in BOOLEAN : SubmitAssessment(c, r, ok)
    \/ \E g \in Generators : GeneratorBegin(g)
    \/ \E g \in Generators, ok \in BOOLEAN : GeneratorFinish(g, ok)

SpecPair == Init /\ [][NextPair]_vars

\* ============================================================ properties
Session == store[NewSessionId]

\* BEDROCK_AGENT_ID or BEDROCK_AGENT_ALIAS_ID is absent or a placeholder.
BadConfig ==
    \/ agent_id \in {"", "PLACEHOLDER_AGENT_ID"}
    \/ agent_alias_id \in {"", "PLACEHOLDER_ALIAS_ID"}

\* The stream ended without a stream error and the reconciliation ran.
StreamEndedNormally == pc = "done" /\ result = "Agent workflow completed"

\* C1: a session with status COMPLETED has at least one document URL, and
\* an execution whose stream ended normally with no document URL on the
\* record at the re-read leaves the session in ERROR, not COMPLETED.
C1_CompletedHasDocuments ==
    /\ \A s \in SessionIds :
           store[s].status = "COMPLETED" => Len(store[s].document_urls) >= 1
    /\ (StreamEndedNormally /\ Session.document_urls = <<>>)
           => Session.status = "ERROR"

\* C1 witness: the planner sent its final response and text, no URL was
\* appended, and the execution ended in ERROR.
C1_Witness ==
    /\ StreamEndedNormally
    /\ Session.document_urls = <<>>
    /\ Session.status = "ERROR"
    /\ \E i \in DOMAIN observed : observed[i].kind = "finalResponse"
    /\ \E i \in DOMAIN observed : observed[i].kind = "chunk"

Terminal(item) == item.status \in {"COMPLETED", "ERROR"}

\* C2: once a session's status is COMPLETED or ERROR, no step of a leaf
\* Lambda and no iteration of the orchestrator's stream loop changes its
\* status, document_urls or cost_data.
C2_TerminalIsFinal ==
    [][(LeafBegin
          \/ (\E ok \in BOOLEAN, c \in ComplexityLevels : LeafFinish(ok, c))
          \/ ReadEvent)
       => \A s \in SessionIds :
              Terminal(store[s])
                  => /\ store'[s].status = store[s].status
                     /\ store'[s].document_urls = store[s].document_urls
                     /\ store'[s].cost_data = store[s].cost_data]_vars

SpecStatuses ==
    {"PENDING", "PROCESSING", "COMPLETED", "ERROR", "AWAITING_INPUT",
     "CONFIGURATION_ERROR"}

\* C3: the status stored on a session record is always one of PENDING,
\* PROCESSING, COMPLETED, ERROR, AWAITING_INPUT, CONFIGURATION_ERROR.
C3_StatusInEnum ==
    \A s \in SessionIds : store[s].exists => store[s].status \in SpecStatuses

\* C4: of two successive agent-status reads of a session that both return
\* status PROCESSING, the second never returns a lower progress.
C4_ProgressMonotonic ==
    [][(/\ lastPoll.code = 200
        /\ lastPoll'.code = 200
        /\ lastPoll'.session_id = lastPoll.session_id
        /\ lastPoll.status = "PROCESSING"
        /\ lastPoll'.status = "PROCESSING")
       => lastPoll'.progress >= lastPoll.progress]_vars

\* C5: the progress of a session is always in 0..100.
C5_ProgressInRange ==
    \A s \in SessionIds :
        store[s].exists => ProgressOf(store[s]) \in 0..100

AllThrottled ==
    /\ invokeLog # <<>>
    /\ \A i \in DOMAIN invokeLog : invokeLog[i] = "ThrottlingException"

\* C6: when every invoke_agent call is throttled, there are exactly 3
\* calls, a wait after the first and the second only, the second wait is
\* longer than the first, and the execution ends with the session in ERROR.
C6_ThrottledDispatch ==
    AllThrottled =>
        /\ Len(invokeLog) <= 3
        /\ Len(waits) = (IF Len(invokeLog) < 3 THEN Len(invokeLog) ELSE 2)
        /\ Len(waits) = 2 => waits[2] > waits[1]
        /\ Len(invokeLog) = 3 => (pc = "done" /\ Session.status = "ERROR")
        /\ pc = "done" => Len(invokeLog) = 3

\* C6 witness: three throttled calls, waits of 2 s and 4 s, ERROR.
C6_Witness ==
    /\ invokeLog = <<"ThrottlingException", "ThrottlingException",
                     "ThrottlingException">>
    /\ waits = <<2, 4>>
    /\ pc = "done"
    /\ Session.status = "ERROR"

NonThrottlingErrors == {"AccessDeniedException", "EndpointConnectionError"}

\* C7: an invoke_agent call that fails with an error other than throttling
\* is the last call of the execution, and the session is then in ERROR.
C7_NoRetryOnOtherErrors ==
    \A i \in DOMAIN invokeLog :
        invokeLog[i] \in NonThrottlingErrors
            => /\ i = Len(invokeLog)
               /\ pc = "done"
               /\ Session.status = "ERROR"

\* C7 witness: a throttled call, then a call that failed with another
\* error; no third call, ERROR.
C7_Witness ==
    /\ invokeLog = <<"ThrottlingException", "AccessDeniedException">>
    /\ pc = "done"
    /\ Session.status = "ERROR"

\* C8: with the agent id or alias id absent or a placeholder, the
\* execution leaves the session with status CONFIGURATION_ERROR.
C8_ConfigurationErrorStatus ==
    (pc = "done" /\ BadConfig) => Session.status = "CONFIGURATION_ERROR"

\* C9: with the agent id or alias id absent or a placeholder, invoke_agent
\* is never called, the planner never runs, and the session's status is
\* only ever PENDING or, once the execution has ended, its terminal status.
C9_ConfigFailsFast ==
    BadConfig =>
        /\ invokeLog = <<>>
        /\ waits = <<>>
        /\ plannerPc = "off"
        /\ Session.exists => Session.status \in {"PENDING", "ERROR"}
        /\ pc = "done" => Session.status = "ERROR"
        /\ (pc # "done" /\ http = 200) => Session.status = "PENDING"

\* C9 witness: placeholders, the execution has ended, no call was made.
C9_Witness ==
    /\ agent_id = "PLACEHOLDER_AGENT_ID"
    /\ agent_alias_id = "PLACEHOLDER_ALIAS_ID"
    /\ pc = "done"
    /\ invokeLog = <<>>
    /\ Session.status = "ERROR"

\* The last event read from the stream was the planner handing control
\* back to wait for input.
EndedAwaitingInput ==
    /\ StreamEndedNormally
    /\ observed # <<>>
    /\ observed[Len(observed)].kind = "returnControl"

\* C10: when the stream ends with the awaiting-input signal, the session's
\* final status is AWAITING_INPUT.
C10_AwaitingInput == EndedAwaitingInput => Session.status = "AWAITING_INPUT"

NoDocumentsMessage ==
    "Agent workflow completed but no documents were generated"

\* C11: when the stream ended normally and document_urls is empty, the
\* session's status is ERROR, its error_message says that no documents
\* were generated, and its progress is not 100.
C11_NoDocumentsIsError ==
    (StreamEndedNormally /\ Session.document_urls = <<>>)
        => /\ Session.status = "ERROR"
           /\ Session.error_message = NoDocumentsMessage
           /\ ProgressOf(Session) # 100

\* C11 witness: the slide generator was called and failed, the stream then
\* ended normally; ERROR, the message, and the progress of the tool call.
C11_Witness ==
    /\ StreamEndedNormally
    /\ Session.document_urls = <<>>
    /\ \E i \in DOMAIN observed :
           observed[i] = StreamEvent("invocationInput", "PowerPointGenerator")
    /\ Session.status = "ERROR"
    /\ Session.error_message = NoDocumentsMessage
    /\ ProgressOf(Session) = 80

HasArtifact(document_urls, suffix) ==
    \E i \in DOMAIN document_urls :
        document_urls[i] \in {sid \o suffix : sid \in SessionIds}

\* C12: a session with status COMPLETED holds a slide-deck URL and a
\* statement-of-work URL in document_urls.
C12_CompletedHasBothTypes ==
    \A s \in SessionIds :
        store[s].status = "COMPLETED"
            => /\ HasArtifact(store[s].document_urls, "/presentation.pptx")
               /\ HasArtifact(store[s].document_urls, "/sow.docx")

PptxUrl == NewSessionId \o "/presentation.pptx"
SowUrl == NewSessionId \o "/sow.docx"

\* C13: when both generators have made their append, in whichever order
\* and whether or not document_urls existed before, document_urls holds
\* exactly the two URLs; while one has appended, its URL is there.
C13_BothAppendsKept ==
    /\ (gens["PowerPointGenerator"] = "done" /\ gens["SOWGenerator"] = "done")
           => Session.document_urls \in {<<PptxUrl, SowUrl>>, <<SowUrl, PptxUrl>>}
    /\ gens["PowerPointGenerator"] = "done"
           => HasArtifact(Session.document_urls, "/presentation.pptx")
    /\ gens["SOWGenerator"] = "done"
           => HasArtifact(Session.document_urls, "/sow.docx")

\* C13 witness: the record had no document_urls, the SOW generator
\* appended first and the slide generator second.
C13_Witness ==
    /\ Session.status = "POWERPOINT_GENERATED"
    /\ gens["PowerPointGenerator"] = "done"
    /\ gens["SOWGenerator"] = "done"
    /\ Session.document_urls = <<SowUrl, PptxUrl>>

\* update_item calls the stream loop has issued: one update_session_status
\* per tool-call announcement and the agent_events writes.
StoreWritesInLoop == action_group_invocations + flushes

\* No time has passed since the loop began (Tick and the throttling pause
\* raise since, only an agent_events write resets it): every event read so
\* far arrived within one flush interval.
WithinFirstInterval == pc = "stream" /\ since = 0 /\ flushes = 0

\* C14: for the events that arrived within one flush interval, whatever
\* their kinds, the stream loop issues no more than one store write.
C14_OneWritePerInterval ==
    (WithinFirstInterval /\ observed # <<>>) => StoreWritesInLoop <= 1

RECURSIVE ClassifyAll(_)
ClassifyAll(es) ==
    IF es = <<>> THEN <<>> ELSE Classify(Head(es)) \o ClassifyAll(Tail(es))

IsStreamError(e) == e.kind \in {"internalServerException", "validationException"}

StreamErrorMessages ==
    {"Bedrock agent internal error", "Bedrock agent validation error"}

\* C15: once an internal-server or validation error event has been read,
\* it is the last event read, the execution has ended, the stored
\* agent_events are the classified events read before it, in order, and the
\* session is in ERROR with the stream error as its error_message.
C15_StreamErrorStops ==
    \A i \in DOMAIN observed :
        IsStreamError(observed[i])
            => /\ i = Len(observed)
               /\ pc = "done"
               /\ Session.agent_events = ClassifyAll(SubSeq(observed, 1, i - 1))
               /\ Session.status = "ERROR"
               /\ Session.error_message \in StreamErrorMessages
               /\ (observed[i].kind = "validationException")
                      = (Session.error_message = "Bedrock agent validation error")

\* C15 witness: two classified events, never flushed by the loop, then a
\* validation error; both events are on the record.
C15_Witness ==
    /\ Len(observed) = 3
    /\ observed[3].kind = "validationException"
    /\ flushes = 0
    /\ Len(Session.agent_events) = 2
    /\ Session.status = "ERROR"

\* C16: the iteration that reads a throttling event appends a warning to
\* agent_events, leaves the session record as it is, makes no invoke_agent
\* call and leaves the loop running.
C16_StreamThrottlingIsWarning ==
    [][(ReadEvent /\ Head(stream).kind = "throttlingException")
       => /\ agent_events' = Append(agent_events, AgentEvent("warning", ""))
          /\ store' = store
          /\ invokeLog' = invokeLog
          /\ pc' = "stream"]_vars

\* C16 witness: a throttling event was read, then a chunk; one invoke_agent
\* call in all, and the execution ended with the reconciliation.
C16_Witness ==
    /\ \E i \in DOMAIN observed :
           /\ observed[i].kind = "throttlingException"
           /\ i < Len(observed)
           /\ observed[i + 1].kind = "chunk"
    /\ invokeLog = <<"ok">>
    /\ AgentEvent("warning", "") = Session.agent_events[1]
    /\ StreamEndedNormally

\* C17: after a submit-assessment whose scheduling call failed (response
\* 500) the session is in ERROR with the could-not-start message and no
\* background invocation exists; the response that reports PENDING (200)
\* is given only when the invocation was scheduled.
C17_AsyncFailureIsReported ==
    /\ http = 500
           => /\ Session.exists
              /\ Session.status = "ERROR"
              /\ Session.error_message = "Failed to start async workflow"
              /\ scheduled = 0
              /\ pc = "idle"
    /\ http = 200 => scheduled = 1

\* C17 witness: the 500 response, the session created and marked ERROR.
C17_Witness ==
    /\ http = 500
    /\ Session.status = "ERROR"
    /\ Session.client_name = "Acme"
    /\ Session.progress = <<0>>

\* invoke_agent calls that returned a stream: starts of the planner.
PlannerStarts ==
    Cardinality({i \in DOMAIN invokeLog : invokeLog[i] = "ok"})

\* C18: an accepted submit-assessment request has exactly one background
\* invocation scheduled, and the planner is started at most once for the
\* session.
C18_ExecutedOnce ==
    /\ scheduled <= 1
    /\ http = 200 => scheduled = 1
    /\ PlannerStarts <= 1

\* C19: a submit-assessment request answered 400 leaves no session record
\* and no scheduled workflow, and an agent-status poll for an identifier
\* that no submit created is answered 404.
C19_RejectedLeavesNothing ==
    /\ (http = 400 /\ pc = "idle") => (~Session.exists /\ scheduled = 0)
    /\ lastPoll.session_id = UnknownId => lastPoll.code = 404

\* C20: before the background execution starts, the created session has
\* status PENDING and progress 0; COMPLETED is written only after
\* PROCESSING was written, and only to the created session.
C20_PendingThenProcessing ==
    /\ pc = "queued"
           => (Session.status = "PENDING" /\ Session.progress = <<0>>)
    /\ "COMPLETED" \in written => "PROCESSING" \in written
    /\ \A s \in SessionIds :
           store[s].status = "COMPLETED"
               => (s = NewSessionId /\ "PROCESSING" \in written)

\* C20 witness: the session went from PENDING through PROCESSING to
\* COMPLETED.
C20_Witness ==
    /\ Session.status = "COMPLETED"
    /\ written = {"PENDING", "PROCESSING", "COMPLETED"}
    /\ pc = "done"

\* C21: a record for an identifier that no submit created is neither
\* created nor changed by calculate_cost, retrieve_templates,
\* generate_slides or generate_document: if there is one, it is as
\* analyze_requirements left it.
C21_UnknownIdLeavesNoRecord ==
    store[UnknownId].exists
        => /\ store[UnknownId].status
                  \in {"ANALYZING_REQUIREMENTS", "REQUIREMENTS_ANALYZED"}
           /\ store[UnknownId].cost_data = ""
           /\ store[UnknownId].template_data = ""
           /\ store[UnknownId].document_urls = <<>>

ErrorStates == {"ERROR", "CONFIGURATION_ERROR"}

\* C22: when a leaf step fails, the session it ran for has an error
\* status and an error_message once the step has returned.
C22_LeafFailureIsRecorded ==
    [][(\E c \in ComplexityLevels : LeafFinish(FALSE, c))
       => /\ store'[leaf.sid].status \in ErrorStates
          /\ store'[leaf.sid].error_message # ""]_vars

\* C23: a session record has an error_message only while its status is an
\* error state.
C23_ErrorMessageOnlyInError ==
    \A s \in SessionIds :
        store[s].error_message # "" => store[s].status \in ErrorStates

\* C24: a workflow execution that has written PROCESSING does not return
\* with the session's status still PROCESSING (or any status other than
\* COMPLETED and ERROR).
C24_NeverLeftProcessing ==
    (pc = "done" /\ "PROCESSING" \in written)
        => Session.status \in {"COMPLETED", "ERROR"}

IsPrefix(p, q) == Len(p) <= Len(q) /\ p = SubSeq(q, 1, Len(p))

\* C28: no step of any component removes, reorders or replaces an entry of
\* document_urls: the old value is a prefix of the new one.
C28_DocumentUrlsAppendOnly ==
    [][\A s \in SessionIds :
           IsPrefix(store[s].document_urls, store'[s].document_urls)]_vars

\* C28 witness: both generators appended, one after the other.
C28_Witness ==
    /\ Len(Session.document_urls) = 2
    /\ Session.status = "COMPLETED"

\* C29: the reader's list is the classified events in arrival order, the
\* stored agent_events is a prefix of it, and after a normal end of the
\* stream the two are equal.
C29_StoredEventsArePrefix ==
    /\ agent_events
           = ClassifyAll(IF observed # <<>> /\ IsStreamError(observed[Len(observed)])
                         THEN SubSeq(observed, 1, Len(observed) - 1)
                         ELSE observed)
    /\ IsPrefix(Session.agent_events, agent_events)
    /\ StreamEndedNormally => Session.agent_events = agent_events

\* C29 witness: the loop has written one event and holds two.
C29_Witness ==
    /\ pc = "stream"
    /\ Len(Session.agent_events) = 1
    /\ Len(agent_events) = 2
    /\ flushes = 1

\* C30: each agent_events write made inside the loop happens more than
\* one interval after the previous one (after the start of the loop for
\* the first), and restarts the interval.
C30_FlushAtMostOncePerInterval ==
    [][flushes' # flushes
       => /\ flushes' = flushes + 1
          /\ since > update_interval
          /\ since' = 0]_vars

\* C30 witness: two writes from inside the loop, and an event read right
\* after the second one that was not written.
C30_Witness ==
    /\ flushes = 2
    /\ since = 0
    /\ Len(agent_events) = 3
    /\ Len(Session.agent_events) = 2

\* C27: GET results answers 404 when the session has no record or its
\* document_urls is empty, and otherwise 200 with the first slide-deck
\* URL, the first SOW URL and the session's cost_data, whatever the status.
C27_ResultsAnswer ==
    [][\A sid \in SessionIds :
           GetResults(sid)
               => IF ~store[sid].exists \/ store[sid].document_urls = <<>>
                  THEN lastResults'.code = 404
                  ELSE /\ lastResults'.code = 200
                       /\ lastResults'.powerpoint_url
                              = first_url(store[sid].document_urls, "pptx")
                       /\ lastResults'.sow_url
                              = first_url(store[sid].document_urls, "sow")
                       /\ lastResults'.cost_data = store[sid].cost_data]_vars

\* The steps invoked so far for the session.
Invoked == chain.invoked \cup {g \in Generators : gens[g] # "idle"}

TerminalStatuses ==
    {"COMPLETED", "ERROR", "AWAITING_INPUT", "CONFIGURATION_ERROR"}

StageTable ==
    [RequirementsAnalyzer |-> 30, CostCalculator |-> 50,
     TemplateRetriever |-> 60, PowerPointGenerator |-> 80, SOWGenerator |-> 95]

\* The tool-call announcements among the events read so far.
Announcements(events) ==
    Cardinality({i \in DOMAIN events : events[i].kind = "invocationInput"})

\* C31: reading a tool-call announcement leaves the session PROCESSING with
\* the progress of the stage table, or 15 + 10 * k for a stage outside the
\* table, k counting the announcements read so far including this one, and
\* with current_stage naming the stage.
C31_ProgressFromStageTable ==
    [][(pc = "stream" /\ stream # <<>> /\ ReadEvent
           /\ Head(stream).kind = "invocationInput")
       => LET name == Head(stream).name
          IN  /\ store'[NewSessionId].status = "PROCESSING"
              /\ store'[NewSessionId].progress =
                     IF name \in DOMAIN StageTable
                     THEN <<StageTable[name]>>
                     ELSE <<15 + 10 * Announcements(observed')>>
              /\ store'[NewSessionId].current_stage
                     \in {"Running " \o name, name}]_vars

\* C31 witness: the second announcement of the stream named a stage
\* outside the table.
C31_Witness ==
    /\ Announcements(observed) = 2
    /\ observed[Len(observed)] = StreamEvent("invocationInput", ForeignGroup)
    /\ Session.progress = <<35>>


\* C32: the intake fields of a record keep the values create_session put:
\* the client name and the raw requirements text, also after
\* analyze_requirements has run.
C32_IntakeFieldsKept ==
    Session.exists
        => /\ Session.client_name = create_session("Acme", "R0").client_name
           /\ Session.requirements_data.raw_requirements
                  = create_session("Acme", "R0").requirements_data.raw_requirements


\* The attributes update_session_status never names.
SameOtherFields(a, b) ==
    /\ a.document_urls = b.document_urls
    /\ a.cost_data = b.cost_data
    /\ a.requirements_data = b.requirements_data
    /\ a.template_data = b.template_data
    /\ a.agent_events = b.agent_events
    /\ a.agent_response = b.agent_response
    /\ a.client_name = b.client_name

\* C33: update_session_status applied to a record about to be written changes
\* at most status and the supplied ones of current_stage, progress and
\* error_message; and every step that takes an existing record to ERROR
\* leaves its progress and document_urls as they were (the step of the
\* invoke_agent call writes 'Agent workflow started' with progress 10
\* before the ERROR of a response without a stream).
C33_StatusUpdateIsPartial ==
    [][\A s \in {x \in SessionIds : store[x].exists /\ store'[x] # store[x]} :
           /\ \A status \in {"COMPLETED", "ERROR"},
                 stage \in {"", "Agent workflow failed"},
                 progress \in {<<>>, <<100>>},
                 error_message \in {"", "boom"} :
                  LET after == update_session_status(store[s], status, stage,
                                                     progress, error_message)
                  IN  /\ SameOtherFields(store[s], after)
                      /\ stage = ""
                             => after.current_stage = store[s].current_stage
                      /\ progress = <<>> => after.progress = store[s].progress
                      /\ error_message = ""
                             => after.error_message = store[s].error_message
           /\ (store[s].exists /\ store[s].status # "ERROR"
                  /\ store'[s].status = "ERROR")
                  => /\ \/ store'[s].progress = store[s].progress
                        \/ pc = "invoke" /\ store'[s].progress = <<10>>
                     /\ store'[s].document_urls = store[s].document_urls]_vars

\* C33 witness: a session taken to ERROR by the stream-error branch after
\* a tool call had set its progress.
C33_Witness ==
    /\ Session.status = "ERROR"
    /\ Session.error_message \in StreamErrorMessages
    /\ Session.progress = <<30>>


\* C34: an agent-status answer given after retrieve_templates has
\* persisted its selection carries that selection.
C34_ViewHasTemplateSelection ==
    [][(PollStatus(NewSessionId) /\ Session.template_data # "")
       => /\ lastPoll'.code = 200
          /\ lastPoll'.template_paths = <<Session.template_data>>]_vars


\* C35: calculate_cost run for a record without an analysis ends as a
\* failed step (the cost calculator's ERROR write) and leaves cost_data
\* as it was.
C35_CostNeedsAnalysis ==
    [][(/\ leaf.name = "CostCalculator"
        /\ leaf.pc = "started"
        /\ store[leaf.sid].requirements_data.analysis = ""
        /\ \E ok \in BOOLEAN, c \in ComplexityLevels : LeafFinish(ok, c))
       => /\ store'[leaf.sid].cost_data = store[leaf.sid].cost_data
          /\ store'[leaf.sid].status = "ERROR"]_vars


\* The selection the stored analysis and cost call for: for a session
\* whose analysis has complexity_level High or whose total_cost exceeds
\* 100000 the first enterprise SOW template and the first detailed
\* PowerPoint template, for others the first standard one, the first
\* listed one when there is none, and no entry for an empty listing.
ExpectedSelection(templates, item) ==
    LET large == \/ item.requirements_data.analysis = "High"
                 \/ total_cost_of(item.cost_data) > 100000
    IN  [sow |->
             IF templates.sow = <<>> THEN ""
             ELSE PreferredTemplate(templates.sow,
                      IF large THEN "enterprise" ELSE "standard"),
         powerpoint |->
             IF templates.powerpoint = <<>> THEN ""
             ELSE PreferredTemplate(templates.powerpoint,
                      IF large THEN "detailed" ELSE "standard")]

\* C36: retrieve_templates selects what the session's stored analysis and
\* cost call for.
C36_SelectionFollowsAnalysis ==
    [][(/\ plannerPc = "tool"
        /\ leaf.pc = "started"
        /\ leaf.name = "TemplateRetriever"
        /\ retrieved' # retrieved)
       => retrieved'.selected
              = ExpectedSelection(retrieved'.templates, store[leaf.sid])]_vars


\* C37: an execution ends with current_stage 'Configuration error' only
\* when the agent id or the alias id is absent or a placeholder; a failure
\* after the planner was invoked is not reported as one.
C37_ConfigurationErrorOnlyForConfig ==
    (pc = "done" /\ Session.current_stage = "Configuration error")
        => (BadConfig /\ invokeLog = <<>>)


C39_CompletedHasFullProgress ==
    \A s \in SessionIds :
        store[s].status = "COMPLETED" => store[s].progress = <<100>>

\* C39 witness: a session completed after tool calls had set a lower
\* progress.
C39_Witness ==
    /\ Session.status = "COMPLETED"
    /\ Announcements(observed) >= 1
    /\ Session.progress = <<100>>

====
